---- MODULE Spec2Model ----
(***************************************************************************)
(* Quote-based speech detection baseline (QuoteBaselineModel).             *)
(*                                                                         *)
(* predict_paragraphs runs three phases over a list of paragraphs:         *)
(*   1. _find_quote_spans: a stack automaton over the tokens of the        *)
(*      paragraphs, in order, that emits quote spans;                      *)
(*   2. the tail of _find_quote_spans: spans for the entries still open;   *)
(*   3. _spans_to_bio_labels: projection of the spans on BIO labels, and   *)
(*      the construction of the ModelPrediction records.                   *)
(*                                                                         *)
(* Characters are one-element strings; the Unicode quotation marks are     *)
(* written by name.  A token and a text are sequences of characters.       *)
(* Paragraph and token indices are 0-based, as in the source.              *)
(***************************************************************************)
EXTENDS Integers, Sequences, FiniteSets, TLC

(***************************************************************************)
(* Characters and the quote character sets.                                *)
(***************************************************************************)
STRAIGHT_DOUBLE_QUOTE == "\""
STRAIGHT_SINGLE_QUOTE == "'"
LEFT_DOUBLE_QUOTE == "LDQ"
RIGHT_DOUBLE_QUOTE == "RDQ"
LEFT_SINGLE_QUOTE == "LSQ"
RIGHT_SINGLE_QUOTE == "RSQ"
LEFT_GUILLEMET == "LG"
RIGHT_GUILLEMET == "RG"
\* U+201E, which QUOTE_CHARS names and ALL_QUOTES does not
LOW_DOUBLE_QUOTE == "LOW9"

OPENING_QUOTES ==
    { STRAIGHT_DOUBLE_QUOTE, LEFT_DOUBLE_QUOTE, STRAIGHT_SINGLE_QUOTE,
      LEFT_GUILLEMET, LEFT_SINGLE_QUOTE }

\* mutant: the straight quotes left out of the closing set
CLOSING_QUOTES_CURLY == { RIGHT_DOUBLE_QUOTE, RIGHT_GUILLEMET, RIGHT_SINGLE_QUOTE }

CLOSING_QUOTES ==
    { STRAIGHT_DOUBLE_QUOTE, RIGHT_DOUBLE_QUOTE, STRAIGHT_SINGLE_QUOTE,
      RIGHT_GUILLEMET, RIGHT_SINGLE_QUOTE }

ALL_QUOTES == OPENING_QUOTES \cup CLOSING_QUOTES

QUOTE_CHARS ==
    { STRAIGHT_DOUBLE_QUOTE, STRAIGHT_SINGLE_QUOTE, LEFT_DOUBLE_QUOTE,
      RIGHT_DOUBLE_QUOTE, LEFT_SINGLE_QUOTE, RIGHT_SINGLE_QUOTE,
      LEFT_GUILLEMET, RIGHT_GUILLEMET, LOW_DOUBLE_QUOTE }

SINGLE_QUOTE_FAMILY ==
    { STRAIGHT_SINGLE_QUOTE, RIGHT_SINGLE_QUOTE, LEFT_SINGLE_QUOTE }

\* the characters str.isalpha() accepts, among those the model uses
Letters ==
    { "a", "b", "d", "e", "h", "i", "l", "m", "n", "o", "r", "s", "t", "w", "y",
      "H", "I", "S" }

\* str.isalpha(): non-empty and every character a letter
IsAlpha(s) == Len(s) > 0 /\ \A i \in 1..Len(s) : s[i] \in Letters

\* str.replace(old, ''): the string without the character old
RECURSIVE RemoveChar(_, _)
RemoveChar(s, old) ==
    IF s = <<>> THEN <<>>
    ELSE (IF Head(s) = old THEN <<>> ELSE <<Head(s)>>) \o RemoveChar(Tail(s), old)

\* c in s
CharIn(c, s) == \E i \in 1..Len(s) : s[i] = c

\* str.find(c): the 0-based index of the first occurrence, or -1
Find(s, c) ==
    IF CharIn(c, s)
    THEN (CHOOSE i \in 1..Len(s) : s[i] = c /\ \A j \in 1..(i - 1) : s[j] # c) - 1
    ELSE -1

\* mutant: a pattern of the straight quotes only
QuotePatternStraightOnly(text) ==
    \E i \in 1..Len(text) :
        text[i] \in { STRAIGHT_DOUBLE_QUOTE, STRAIGHT_SINGLE_QUOTE }

\* QUOTE_PATTERN.search(text)
QuotePatternSearch(text) == \E i \in 1..Len(text) : text[i] \in QUOTE_CHARS

\* mutant: only the double quote marks and the guillemets taken as quote tokens
IsDoubleQuoteToken(token) ==
    Len(token) = 1 /\ token[1] \in ALL_QUOTES \ SINGLE_QUOTE_FAMILY

\* token in ALL_QUOTES: the token is exactly one quote character
IsQuoteToken(token) == Len(token) = 1 /\ token[1] \in ALL_QUOTES

\* ' '.join(tokens)
RECURSIVE JoinTokens(_)
JoinTokens(tokens) ==
    IF tokens = <<>> THEN <<>>
    ELSE IF Len(tokens) = 1 THEN tokens[1]
    ELSE tokens[1] \o <<" ">> \o JoinTokens(Tail(tokens))

(***************************************************************************)
(* _is_apostrophe.  TokenRule is the part that looks at the token alone    *)
(* ("quote": the leading-quote rule answered False, "apostrophe": one of   *)
(* the two elif branches answered True, "undecided": control falls through *)
(* to the context check); ContextRule is the part that looks at the raw    *)
(* text around char_idx.                                                    *)
(***************************************************************************)
\* mutant: the leading-quote rule answering True
TokenRuleLeadingApostrophe(char, token) ==
    IF Len(token) > 1 /\ CharIn(char, token) THEN "apostrophe" ELSE "undecided"

TokenRule(char, token) ==
    IF Len(token) > 1 /\ CharIn(char, token)
    THEN IF token[1] = char /\ Len(token) > 2
         THEN IF IsAlpha(Tail(token)) \/ IsAlpha(RemoveChar(Tail(token), "-"))
              THEN "quote"
              ELSE "undecided"
         ELSE IF token[Len(token)] = char /\ Len(token) > 2
         THEN "apostrophe"
         ELSE IF CharIn(char, token) /\ Len(token) > 1
         THEN "apostrophe"
         ELSE "undecided"
    ELSE "undecided"

ContextRule(char_idx, text) ==
    /\ char_idx > 0
    /\ char_idx < Len(text) - 1
    /\ LET prev_char == text[char_idx]
           next_char == text[char_idx + 2]
       IN  \/ prev_char \in Letters /\ (next_char \in Letters \/ next_char = "s")
           \/ prev_char = "s" /\ next_char \in Letters

IsApostrophe(char, char_idx, text, token_idx, tokens) ==
    IF char \notin SINGLE_QUOTE_FAMILY THEN FALSE
    ELSE IF token_idx < 0 \/ token_idx >= Len(tokens) THEN FALSE
    ELSE LET rule == TokenRule(char, tokens[token_idx + 1])
         IN  IF rule = "quote" THEN FALSE
             ELSE IF rule = "apostrophe" THEN TRUE
             ELSE ContextRule(char_idx, text)

\* _extract_quotes_from_token: the quote characters of the token, in order
RECURSIVE ExtractQuotes(_)
ExtractQuotes(token) ==
    IF token = <<>> THEN <<>>
    ELSE (IF Head(token) \in ALL_QUOTES THEN <<Head(token)>> ELSE <<>>)
         \o ExtractQuotes(Tail(token))

\* mutant: Case 2 entered by any token that contains a quote character
HasAnyQuote(token) ==
    /\ Len(token) > 1
    /\ \E i \in 1..Len(token) : token[i] \in ALL_QUOTES

\* Case 2 of the token loop: a longer token whose first or last character is a quote
HasEdgeQuote(token) ==
    /\ Len(token) > 1
    /\ (token[1] \in ALL_QUOTES \/ token[Len(token)] \in ALL_QUOTES)

\* the test that makes the token loop skip one extracted character
SkippedAsApostrophe(quote_char, text, token_idx, tokens) ==
    /\ quote_char \in SINGLE_QUOTE_FAMILY
    /\ Find(text, quote_char) # -1
    /\ IsApostrophe(quote_char, Find(text, quote_char), text, token_idx, tokens)

(***************************************************************************)
(* _process_quote_token: the new stack and span list.                      *)
(***************************************************************************)
Front(s) == SubSeq(s, 1, Len(s) - 1)

Last(s) == s[Len(s)]

\* mutant: the level counted with the popped entry
ClosedSpanLevelBeforePop(entry, para_idx, token_idx, nesting_level) ==
    [ start_para |-> entry.open_para,
      end_para |-> para_idx,
      start_token |-> entry.open_token,
      end_token |-> token_idx,
      quote_char |-> entry.open_char,
      is_nested |-> nesting_level + 1 > 0,
      nesting_level |-> nesting_level + 1 ]

ClosedSpan(entry, para_idx, token_idx, nesting_level) ==
    [ start_para |-> entry.open_para,
      end_para |-> para_idx,
      start_token |-> entry.open_token,
      end_token |-> token_idx,
      quote_char |-> entry.open_char,
      is_nested |-> nesting_level > 0,
      nesting_level |-> nesting_level ]

\* mutant: a character that closes nothing is pushed whether it opens or not
ProcessQuoteTokenPushAny(quote_char, token_idx, para_idx, stack, span_list) ==
    LET is_closing == quote_char \in CLOSING_QUOTES
    IN  IF is_closing /\ stack # <<>>
        THEN [ quote_stack |-> Front(stack),
               spans |-> Append(span_list,
                                ClosedSpan(Last(stack), para_idx, token_idx,
                                           Len(stack) - 1)) ]
        ELSE [ quote_stack |->
                   Append(stack, [ open_para |-> para_idx,
                                   open_token |-> token_idx,
                                   open_char |-> quote_char ]),
               spans |-> span_list ]

\* mutant: the closing branch reads the top entry and leaves it on the stack
ProcessQuoteTokenPeek(quote_char, token_idx, para_idx, stack, span_list) ==
    LET is_opening == quote_char \in OPENING_QUOTES
        is_closing == quote_char \in CLOSING_QUOTES
    IN  IF is_closing /\ stack # <<>>
        THEN [ quote_stack |-> stack,
               spans |-> Append(span_list,
                                ClosedSpan(Last(stack), para_idx, token_idx,
                                           Len(stack) - 1)) ]
        ELSE IF is_opening
        THEN [ quote_stack |->
                   Append(stack, [ open_para |-> para_idx,
                                   open_token |-> token_idx,
                                   open_char |-> quote_char ]),
               spans |-> span_list ]
        ELSE [ quote_stack |-> stack, spans |-> span_list ]

\* mutant: the opening branch tested first
ProcessQuoteTokenOpeningFirst(quote_char, token_idx, para_idx, stack, span_list) ==
    LET is_opening == quote_char \in OPENING_QUOTES
        is_closing == quote_char \in CLOSING_QUOTES
    IN  IF is_opening
        THEN [ quote_stack |->
                   Append(stack, [ open_para |-> para_idx,
                                   open_token |-> token_idx,
                                   open_char |-> quote_char ]),
               spans |-> span_list ]
        ELSE IF is_closing /\ stack # <<>>
        THEN [ quote_stack |-> Front(stack),
               spans |-> Append(span_list,
                                ClosedSpan(Last(stack), para_idx, token_idx,
                                           Len(stack) - 1)) ]
        ELSE [ quote_stack |-> stack, spans |-> span_list ]

ProcessQuoteToken(quote_char, token_idx, para_idx, stack, span_list) ==
    LET is_opening == quote_char \in OPENING_QUOTES
        is_closing == quote_char \in CLOSING_QUOTES
    IN  IF is_closing /\ stack # <<>>
        THEN [ quote_stack |-> Front(stack),
               spans |-> Append(span_list,
                                ClosedSpan(Last(stack), para_idx, token_idx,
                                           Len(stack) - 1)) ]
        ELSE IF is_opening
        THEN [ quote_stack |->
                   Append(stack, [ open_para |-> para_idx,
                                   open_token |-> token_idx,
                                   open_char |-> quote_char ]),
               spans |-> span_list ]
        ELSE [ quote_stack |-> stack, spans |-> span_list ]

(***************************************************************************)
(* The tail of _find_quote_spans: one span per entry left on the stack.    *)
(***************************************************************************)
\* mutant: the span ended in the paragraph it opens in
UnclosedSpanInOwnParagraph(entry, n_paragraphs) ==
    [ start_para |-> entry.open_para,
      end_para |-> entry.open_para,
      start_token |-> entry.open_token,
      end_token |-> -1,
      quote_char |-> entry.open_char,
      is_nested |-> FALSE,
      nesting_level |-> 0 ]

UnclosedSpan(entry, n_paragraphs) ==
    [ start_para |-> entry.open_para,
      end_para |-> n_paragraphs - 1,
      start_token |-> entry.open_token,
      end_token |-> -1,
      quote_char |-> entry.open_char,
      is_nested |-> FALSE,
      nesting_level |-> 0 ]

\* mutant: the configuration flag not consulted
UnclosedSpansAlways(handle_multi_paragraph, stack, n_paragraphs) ==
    [ i \in 1..Len(stack) |-> UnclosedSpan(stack[i], n_paragraphs) ]

UnclosedSpans(handle_multi_paragraph, stack, n_paragraphs) ==
    IF handle_multi_paragraph /\ stack # <<>>
    THEN [ i \in 1..Len(stack) |-> UnclosedSpan(stack[i], n_paragraphs) ]
    ELSE <<>>

(***************************************************************************)
(* _spans_to_bio_labels.                                                   *)
(***************************************************************************)
\* the label "O"; B-<TYPE> and I-<TYPE> are pairs of the prefix and the speech label
O == <<"O">>

BLabel(speech_label) == <<"B", speech_label>>

ILabel(speech_label) == <<"I", speech_label>>

Min(a, b) == IF a <= b THEN a ELSE b

\* spans_by_para[para_idx]: the spans filed under the paragraph, in list order
RECURSIVE SpansByPara(_, _)
SpansByPara(quote_spans, para_idx) ==
    IF quote_spans = <<>> THEN <<>>
    ELSE (IF Head(quote_spans).start_para = para_idx
          THEN <<Head(quote_spans)>> ELSE <<>>)
         \o SpansByPara(Tail(quote_spans), para_idx)

StartTok(span, para_idx) ==
    IF para_idx = span.start_para THEN span.start_token ELSE 0

\* mutant: the span taken to run to the end of the paragraph
EndTokParagraphEnd(span, para_idx, tokens) == Len(tokens) - 1

EndTok(span, para_idx, tokens) ==
    IF para_idx = span.end_para
    THEN (IF span.end_token >= 0 THEN span.end_token ELSE Len(tokens) - 1)
    ELSE Len(tokens) - 1

\* mutant: the stop taken from the span's end token, whatever the paragraph, unclamped
RangeStopUnclamped(span, para_idx, tokens, bio_labels) ==
    (IF span.end_token >= 0 THEN span.end_token ELSE Len(tokens) - 1) + 1

\* the stop of range(start_tok, min(end_tok + 1, len(bio_labels)))
RangeStop(span, para_idx, tokens, bio_labels) ==
    Min(EndTok(span, para_idx, tokens) + 1, Len(bio_labels))

\* mutant: the quote tokens marked like any other token
RECURSIVE MarkTokensNoSkip(_, _, _, _, _, _)
MarkTokensNoSkip(bio_labels, tokens, token_idx, stop, first_content_token, speech_label) ==
    IF token_idx >= stop \/ token_idx + 1 \notin DOMAIN tokens
    THEN bio_labels
    ELSE MarkTokensNoSkip([ bio_labels EXCEPT ![token_idx + 1] =
                                IF first_content_token THEN BLabel(speech_label)
                                ELSE ILabel(speech_label) ],
                          tokens, token_idx + 1, stop, FALSE, speech_label)

\* the marking loop from token_idx on; tokens[token_idx] is read at every index
RECURSIVE MarkTokens(_, _, _, _, _, _)
MarkTokens(bio_labels, tokens, token_idx, stop, first_content_token, speech_label) ==
    IF token_idx >= stop \/ token_idx + 1 \notin DOMAIN tokens
    THEN bio_labels
    ELSE IF IsQuoteToken(tokens[token_idx + 1])
    THEN MarkTokens(bio_labels, tokens, token_idx + 1, stop,
                    first_content_token, speech_label)
    ELSE MarkTokens([ bio_labels EXCEPT ![token_idx + 1] =
                          IF first_content_token THEN BLabel(speech_label)
                          ELSE ILabel(speech_label) ],
                    tokens, token_idx + 1, stop, FALSE, speech_label)

ApplySpan(bio_labels, tokens, span, para_idx, speech_label) ==
    MarkTokens(bio_labels, tokens, StartTok(span, para_idx),
               RangeStop(span, para_idx, tokens, bio_labels), TRUE, speech_label)

\* mutant: the spans applied from the last to the first
RECURSIVE ApplySpansLastFirst(_, _, _, _, _)
ApplySpansLastFirst(bio_labels, tokens, para_spans, para_idx, speech_label) ==
    IF para_spans = <<>> THEN bio_labels
    ELSE ApplySpan(ApplySpansLastFirst(bio_labels, tokens, Tail(para_spans),
                                       para_idx, speech_label),
                   tokens, Head(para_spans), para_idx, speech_label)

RECURSIVE ApplySpans(_, _, _, _, _)
ApplySpans(bio_labels, tokens, para_spans, para_idx, speech_label) ==
    IF para_spans = <<>> THEN bio_labels
    ELSE ApplySpans(ApplySpan(bio_labels, tokens, Head(para_spans), para_idx,
                              speech_label),
                    tokens, Tail(para_spans), para_idx, speech_label)

ParagraphLabels(tokens, quote_spans, para_idx, speech_label) ==
    ApplySpans([ i \in 1..Len(tokens) |-> O ], tokens,
               SpansByPara(quote_spans, para_idx), para_idx, speech_label)

SpansToBioLabels(paragraphs, quote_spans, speech_label) ==
    [ p \in 1..Len(paragraphs) |->
        ParagraphLabels(paragraphs[p].tokens, quote_spans, p - 1, speech_label) ]

\* tokens[token_idx] raises IndexError: a list index outside -len .. len - 1
SpanIndexError(tokens, span, para_idx) ==
    \E token_idx \in StartTok(span, para_idx) ..
                     (RangeStop(span, para_idx, tokens,
                                [ i \in 1..Len(tokens) |-> O ]) - 1) :
        token_idx < -Len(tokens) \/ token_idx >= Len(tokens)

ProjectionIndexError(paragraphs, quote_spans) ==
    \E p \in 1..Len(paragraphs) :
        LET para_spans == SpansByPara(quote_spans, p - 1)
        IN  \E k \in 1..Len(para_spans) :
                SpanIndexError(paragraphs[p].tokens, para_spans[k], p - 1)

\* the ModelPrediction of one paragraph
ModelPrediction(para, labels) ==
    [ doc_id |-> para.doc_id,
      para_id |-> para.para_id,
      tokens |-> para.tokens,
      predicted_bio_labels |-> labels,
      text |-> para.text ]

(***************************************************************************)
(* The loops of _find_quote_spans as functions of the paragraph list: what *)
(* the actions below compute step by step.  A matcher state is a record    *)
(* [quote_stack, spans].                                                   *)
(***************************************************************************)
\* one extracted character of a Case 2 token: skipped as apostrophe, or processed
EmbeddedStep(quote_char, token_idx, para_idx, text, tokens, stack, span_list) ==
    IF SkippedAsApostrophe(quote_char, text, token_idx, tokens)
    THEN [ quote_stack |-> stack, spans |-> span_list ]
    ELSE ProcessQuoteToken(quote_char, token_idx, para_idx, stack, span_list)

RECURSIVE EmbeddedScan(_, _, _, _, _, _)
EmbeddedScan(quotes, token_idx, para_idx, text, tokens, m) ==
    IF quotes = <<>> THEN m
    ELSE EmbeddedScan(Tail(quotes), token_idx, para_idx, text, tokens,
                      EmbeddedStep(Head(quotes), token_idx, para_idx, text, tokens,
                                   m.quote_stack, m.spans))

\* the body of the token loop for the token at token_idx
TokenScan(token_idx, para_idx, text, tokens, m) ==
    LET tok == tokens[token_idx + 1]
    IN  IF IsQuoteToken(tok)
        THEN ProcessQuoteToken(tok[1], token_idx, para_idx, m.quote_stack, m.spans)
        ELSE IF HasEdgeQuote(tok)
        THEN EmbeddedScan(ExtractQuotes(tok), token_idx, para_idx, text, tokens, m)
        ELSE m

RECURSIVE TokensScan(_, _, _, _, _)
TokensScan(token_idx, para_idx, text, tokens, m) ==
    IF token_idx >= Len(tokens) THEN m
    ELSE TokensScan(token_idx + 1, para_idx, text, tokens,
                    TokenScan(token_idx, para_idx, text, tokens, m))

RECURSIVE ParagraphsScan(_, _, _)
ParagraphsScan(paragraphs, para_idx, m) ==
    IF para_idx >= Len(paragraphs) THEN m
    ELSE LET p == paragraphs[para_idx + 1]
         IN  ParagraphsScan(paragraphs, para_idx + 1,
                            IF ~QuotePatternSearch(p.text) THEN m
                            ELSE TokensScan(0, para_idx, p.text, p.tokens, m))

\* the paragraph loop with the token loop entered for every paragraph
RECURSIVE ParagraphsScanEveryToken(_, _, _)
ParagraphsScanEveryToken(paragraphs, para_idx, m) ==
    IF para_idx >= Len(paragraphs) THEN m
    ELSE LET p == paragraphs[para_idx + 1]
         IN  ParagraphsScanEveryToken(paragraphs, para_idx + 1,
                                      TokensScan(0, para_idx, p.text, p.tokens, m))

\* _find_quote_spans without its fast path
FindQuoteSpansEveryToken(paragraphs, handle_multi_paragraph) ==
    LET m == ParagraphsScanEveryToken(paragraphs, 0,
                                      [ quote_stack |-> <<>>, spans |-> <<>> ])
    IN  m.spans \o UnclosedSpans(handle_multi_paragraph, m.quote_stack,
                                 Len(paragraphs))

\* _find_quote_spans(paragraphs): the span list returned
FindQuoteSpans(paragraphs, handle_multi_paragraph) ==
    LET m == ParagraphsScan(paragraphs, 0, [ quote_stack |-> <<>>, spans |-> <<>> ])
    IN  m.spans \o UnclosedSpans(handle_multi_paragraph, m.quote_stack,
                                 Len(paragraphs))

\* the label lists of predict_paragraphs(paragraphs)
PredictedLabels(paragraphs, cfg) ==
    SpansToBioLabels(paragraphs,
                     FindQuoteSpans(paragraphs, cfg.handle_multi_paragraph),
                     cfg.speech_label)

(***************************************************************************)
(* Inputs.  A document is a sequence of paragraphs; a paragraph's text is  *)
(* its tokens joined by one space (the tokens are text.split()).           *)
(***************************************************************************)
MaxParas == 2

MaxTokens == 3

TokenPool ==
    { <<"a">>,
      <<STRAIGHT_DOUBLE_QUOTE>>,
      <<STRAIGHT_SINGLE_QUOTE>>,
      <<LEFT_DOUBLE_QUOTE>>,
      <<RIGHT_DOUBLE_QUOTE>>,
      <<STRAIGHT_DOUBLE_QUOTE, "a", STRAIGHT_DOUBLE_QUOTE>> }

Paragraph(doc_id, para_id, tokens) ==
    [ doc_id |-> doc_id, para_id |-> para_id,
      text |-> JoinTokens(tokens), tokens |-> tokens ]

\* the paragraphs of document doc_id, from their token lists
Document(doc_id, token_lists) ==
    [ p \in 1..Len(token_lists) |-> Paragraph(doc_id, p, token_lists[p]) ]

RECURSIVE SumTo(_, _)
SumTo(lens, n) == IF n = 0 THEN 0 ELSE lens[n] + SumTo(lens, n - 1)

\* toks cut into consecutive pieces of the lengths lens
Cut(toks, lens) ==
    [ p \in 1..Len(lens) |->
        SubSeq(toks, SumTo(lens, p - 1) + 1, SumTo(lens, p)) ]

\* every list of at most max_paras token lists with at most max_tokens tokens in all
TokenLists(max_paras, max_tokens) ==
    UNION { UNION { { Cut(toks, lens) :
                        lens \in { l \in [1..n -> 0..k] : SumTo(l, n) = k } } :
                    toks \in [1..k -> TokenPool] } :
            n \in 0..max_paras, k \in 0..max_tokens }

\* words and punctuation of the documented examples
He == <<"H", "e">>
She == <<"S", "h", "e">>
Hi == <<"H", "i">>
said == <<"s", "a", "i", "d">>
Hello == <<"H", "e", "l", "l", "o">>
world == <<"w", "o", "r", "l", "d">>
today == <<"t", "o", "d", "a", "y">>
Period == <<".">>
SDQ == <<STRAIGHT_DOUBLE_QUOTE>>
SSQ == <<STRAIGHT_SINGLE_QUOTE>>
LDQ == <<LEFT_DOUBLE_QUOTE>>
RDQ == <<RIGHT_DOUBLE_QUOTE>>
LSQ == <<LEFT_SINGLE_QUOTE>>
RSQ == <<RIGHT_SINGLE_QUOTE>>

\* predict_paragraphs' docstring: He said "Hello world" today
SimpleQuoteExample == << <<He, said, SDQ, Hello, world, SDQ, today>> >>

\* She said " He said ' Hi ' " .   (straight quotes, single inside double)
NestedStraightExample ==
    << <<She, said, SDQ, He, said, SSQ, Hi, SSQ, SDQ, Period>> >>

\* the same sentence with curly quotes
NestedCurlyExample ==
    << <<She, said, LDQ, He, said, LSQ, Hi, RSQ, RDQ, Period>> >>

\* a quote opened in the first paragraph and closed in the third
ContinuationExample ==
    << <<He, said, LDQ, Hello>>, <<world>>, <<today, RDQ, Period>> >>

\* a quote opened in the first paragraph and never closed
UnclosedExample == << <<He, said, LDQ, Hello>>, <<world>>, <<today, Period>> >>

\* tokens with a quote character inside: don't, and 5"6 written with letters
dont == <<"d", "o", "n", STRAIGHT_SINGLE_QUOTE, "t">>
inches == <<"a", STRAIGHT_DOUBLE_QUOTE, "b">>

\* tokens with interior quote characters inside and outside a quote
InteriorQuoteExample == << <<dont, inches, LDQ, dont, inches, RDQ, inches, dont>> >>

\* a quote over four paragraphs: the second has the low quotation mark, which the
\* pattern names and the quote sets do not; the third has no quote character
LowQuoteExample ==
    << <<LDQ, Hello>>, << <<LOW_DOUBLE_QUOTE>>, world>>, <<today>>, <<RDQ>> >>

\* tokens with a single quote at the end: boys' and 'tis'
boys == <<"b", "o", "y", "s", STRAIGHT_SINGLE_QUOTE>>
tis == <<STRAIGHT_SINGLE_QUOTE, "t", "i", "s", STRAIGHT_SINGLE_QUOTE>>

\* a trailing possessive inside a quote, and 'tis' on its own
TrailingQuoteExamples ==
    { << <<SDQ, boys, said, SDQ>> >>, << <<He, said, tis>> >> }

\* 'I'm: a leading single quote and an apostrophe inside
Im == <<STRAIGHT_SINGLE_QUOTE, "I", STRAIGHT_SINGLE_QUOTE, "m">>

\* a contraction with a quote mark at its end, dont", and 'I'm after a word
InternalQuoteExamples ==
    { << <<SDQ, dont \o SDQ, said>> >>, << <<He, said, Im>> >> }

\* 'tis. : a leading single quote and a remainder that is not alphabetic
tis_stop == <<STRAIGHT_SINGLE_QUOTE, "t", "i", "s", ".">>

\* the token 'tis. after a word, and after a contraction with the same character
ContextExamples ==
    { << <<said, tis_stop>> >>, << <<dont, tis_stop>> >> }

\* a single quote character before a word: 'Hi, with the curly marks, and 'a-b
LeadingQuoteExamples ==
    { << <<LDQ, SSQ \o Hi, said>> >>,
      << <<SSQ \o Hello, world, SSQ>> >>,
      << <<dont, SSQ \o Hi, SSQ>> >>,
      << <<LDQ, LSQ \o Hi, RSQ \o Hi>> >>,
      << <<RSQ \o Hi, SSQ \o <<"a", "-", "b">>, SSQ>> >> }

ExampleTokenLists ==
    { SimpleQuoteExample, NestedStraightExample, NestedCurlyExample,
      ContinuationExample, UnclosedExample, InteriorQuoteExample, LowQuoteExample }
    \cup TrailingQuoteExamples \cup InternalQuoteExamples \cup ContextExamples
    \cup LeadingQuoteExamples

\* cli.py predict: all_data.extend(paras) over the documents of the corpus
Batch(doc_a, doc_b) == doc_a \o doc_b

\* two documents: the first leaves a quote open, the second has a quote of its own
ExampleBatches ==
    { Batch(Document("doc1", << <<He, said, LDQ, Hello>> >>),
            Document("doc2", << <<She, said, LDQ, Hi, RDQ>>, <<today>> >>)),
      Batch(Document("doc1", << <<SDQ, Hello>> >>),
            Document("doc2", << <<SDQ, Hi, SDQ, today>> >>)) }

\* a tokenizer that splits at the apostrophe: the text don't, the tokens don ' t
SplitContraction ==
    << [ doc_id |-> "doc1", para_id |-> 1, text |-> dont,
         tokens |-> << <<"d", "o", "n">>, SSQ, <<"t">> >> ] >>

Inputs ==
    { Document("doc1", token_lists) :
        token_lists \in TokenLists(MaxParas, MaxTokens) \cup ExampleTokenLists }
    \cup ExampleBatches \cup { SplitContraction }

VARIABLES
    config,        \* the model's QuoteBaselineConfig
    data,          \* the argument of predict_paragraphs
    pc,            \* "find", "project", "done"
    para_idx,      \* _find_quote_spans: the paragraph of the outer loop
    token_idx,     \* _find_quote_spans: the token of the inner loop
    quote_i,       \* how many quote characters of the token are processed
    quote_stack,   \* _find_quote_spans: quote_stack
    spans,         \* _find_quote_spans: spans
    predictions,   \* the list predict_paragraphs returns
    error,         \* the exception predict_paragraphs raised, or "none"
    history,       \* the argument and the result of every earlier call, in order
    result         \* the list generate_quote_based_labels returns

vars ==
    << config, data, pc, para_idx, token_idx, quote_i, quote_stack, spans,
       predictions, error, history, result >>

\* QuoteBaselineConfig(): the defaults
DefaultConfig ==
    [ speech_label |-> "DIRECT", handle_multi_paragraph |-> TRUE, handle_nested |-> TRUE ]

Configs ==
    [ speech_label : {"DIRECT"},
      handle_multi_paragraph : BOOLEAN,
      handle_nested : {TRUE} ]

\* the entry of the first call predict_paragraphs(paragraphs) on a model built with cfg
Entry(cfg, paragraphs) ==
    /\ config = cfg
    /\ data = paragraphs
    /\ pc = "find"
    /\ para_idx = 0
    /\ token_idx = 0
    /\ quote_i = 0
    /\ quote_stack = <<>>
    /\ spans = <<>>
    /\ predictions = <<>>
    /\ error = "none"
    /\ history = <<>>
    /\ result = <<>>

Init == \E cfg \in Configs, paragraphs \in Inputs : Entry(cfg, paragraphs)

(***************************************************************************)
(* _find_quote_spans, one action per iteration of its loops.               *)
(***************************************************************************)
InParagraph == pc = "find" /\ para_idx < Len(data)

para == data[para_idx + 1]

AtToken ==
    /\ InParagraph
    /\ QuotePatternSearch(para.text)
    /\ token_idx < Len(para.tokens)

token == para.tokens[token_idx + 1]

\* the fast path: a paragraph without any quote character in its text
SkipParagraph ==
    /\ InParagraph
    /\ ~QuotePatternSearch(para.text)
    /\ para_idx' = para_idx + 1
    /\ UNCHANGED << config, data, pc, token_idx, quote_i, quote_stack, spans,
                    predictions, error, history, result >>

\* mutant: with handle_nested off, a closing quote token inside another quote is ignored
StandaloneQuoteUnlessNested ==
    /\ AtToken
    /\ IsQuoteToken(token)
    /\ LET r == ProcessQuoteToken(token[1], token_idx, para_idx, quote_stack, spans)
       IN  IF ~config.handle_nested /\ Len(quote_stack) > 1
              /\ token[1] \in CLOSING_QUOTES
           THEN quote_stack' = quote_stack /\ spans' = spans
           ELSE quote_stack' = r.quote_stack /\ spans' = r.spans
    /\ token_idx' = token_idx + 1
    /\ UNCHANGED << config, data, pc, para_idx, quote_i, predictions, error,
                    history, result >>

\* Case 1: the token is one quote character
StandaloneQuote ==
    /\ AtToken
    /\ IsQuoteToken(token)
    /\ LET r == ProcessQuoteToken(token[1], token_idx, para_idx, quote_stack, spans)
       IN  /\ quote_stack' = r.quote_stack
           /\ spans' = r.spans
    /\ token_idx' = token_idx + 1
    /\ UNCHANGED << config, data, pc, para_idx, quote_i, predictions, error,
                    history, result >>

\* Case 2: the next quote character of a longer token with a quote at an edge
EmbeddedQuote ==
    /\ AtToken
    /\ ~IsQuoteToken(token)
    /\ HasEdgeQuote(token)
    /\ LET quotes == ExtractQuotes(token)
           quote_char == quotes[quote_i + 1]
           r == EmbeddedStep(quote_char, token_idx, para_idx, para.text,
                             para.tokens, quote_stack, spans)
       IN  /\ quote_stack' = r.quote_stack
           /\ spans' = r.spans
           /\ IF quote_i + 1 < Len(quotes)
              THEN quote_i' = quote_i + 1 /\ token_idx' = token_idx
              ELSE quote_i' = 0 /\ token_idx' = token_idx + 1
    /\ UNCHANGED << config, data, pc, para_idx, predictions, error, history, result >>

\* any other token
PlainToken ==
    /\ AtToken
    /\ ~IsQuoteToken(token)
    /\ ~HasEdgeQuote(token)
    /\ token_idx' = token_idx + 1
    /\ UNCHANGED << config, data, pc, para_idx, quote_i, quote_stack, spans,
                    predictions, error, history, result >>

\* the end of the token loop
EndParagraph ==
    /\ InParagraph
    /\ QuotePatternSearch(para.text)
    /\ token_idx = Len(para.tokens)
    /\ para_idx' = para_idx + 1
    /\ token_idx' = 0
    /\ UNCHANGED << config, data, pc, quote_i, quote_stack, spans, predictions,
                    error, history, result >>

\* after the last paragraph: the spans of the quotes never closed
FinalizeUnclosed ==
    /\ pc = "find"
    /\ para_idx = Len(data)
    /\ spans' = spans \o UnclosedSpans(config.handle_multi_paragraph, quote_stack,
                                       Len(data))
    /\ pc' = "project"
    /\ UNCHANGED << config, data, para_idx, token_idx, quote_i, quote_stack,
                    predictions, error, history, result >>

(***************************************************************************)
(* The rest of predict_paragraphs: the labels and the predictions.         *)
(***************************************************************************)
\* zip(data, predicted_labels, strict=True) into ModelPrediction records
ZipPredictions(paragraphs, predicted_labels) ==
    [ p \in 1..Len(paragraphs) |-> ModelPrediction(paragraphs[p], predicted_labels[p]) ]

Predict ==
    /\ pc = "project"
    /\ LET predicted_labels == SpansToBioLabels(data, spans, config.speech_label)
       IN  IF ProjectionIndexError(data, spans)
           THEN error' = "IndexError" /\ predictions' = predictions
           ELSE IF Len(predicted_labels) # Len(data)
           THEN error' = "ValueError" /\ predictions' = predictions
           ELSE error' = error /\ predictions' = ZipPredictions(data, predicted_labels)
    /\ pc' = "done"
    /\ UNCHANGED << config, data, para_idx, token_idx, quote_i, quote_stack, spans,
                    history, result >>

(***************************************************************************)
(* generate_quote_based_labels: a call of predict_paragraphs on a model of *)
(* the default configuration, then one labelled dictionary per paragraph.  *)
(***************************************************************************)
\* mutant: para_with_labels is the input dictionary itself
ParaCopyIsSameDict == FALSE

\* para.copy() is a new dictionary: assigning to it leaves para as it was
ParaCopyIsNewDict == TRUE

\* para_with_labels after para_with_labels["bio_labels"] = labels
WithBioLabels(paragraph, labels) ==
    [ key \in DOMAIN paragraph \cup {"bio_labels"} |->
        IF key = "bio_labels" THEN labels ELSE paragraph[key] ]

\* the loop over zip(paragraphs, predictions, strict=True)
AddLabels ==
    /\ pc = "done"
    /\ config = DefaultConfig
    /\ error = "none"
    /\ IF Len(predictions) # Len(data)
       THEN error' = "ValueError" /\ result' = result /\ data' = data
       ELSE /\ error' = error
            /\ result' = [ p \in 1..Len(data) |->
                             WithBioLabels(data[p], predictions[p].predicted_bio_labels) ]
            /\ data' = IF ParaCopyIsNewDict THEN data ELSE result'
    /\ pc' = "labeled"
    /\ UNCHANGED << config, para_idx, token_idx, quote_i, quote_stack, spans,
                    predictions, history >>

Next ==
    \/ SkipParagraph
    \/ StandaloneQuote
    \/ EmbeddedQuote
    \/ PlainToken
    \/ EndParagraph
    \/ FinalizeUnclosed
    \/ Predict
    \/ AddLabels

Spec == Init /\ [][Next]_vars

(***************************************************************************)
(* Repeated calls.  A model instance holds its config and nothing else; a  *)
(* second instance built with the same config is the same state.           *)
(* _find_quote_spans creates its span list and its stack at every call.    *)
(***************************************************************************)
MaxCalls == 3

MaxRepeatTokens == 2

\* a call in between: a document that leaves a quote open and emits a span
OtherDocuments ==
    { Document("other", << <<LDQ, Hi, RDQ, LDQ, Hello>> >>),
      Document("other", << <<SDQ, Hello>> >>) }

RepeatInputs ==
    { Document("doc1", token_lists) :
        token_lists \in TokenLists(MaxParas, MaxRepeatTokens) \cup ExampleTokenLists }

\* spans = [] at the entry of _find_quote_spans; previous: the last call's list
EntrySpans(previous) == <<>>

\* mutant: the stack kept on the instance from call to call
EntryStackKept(previous) == previous

\* quote_stack = [] at the entry of _find_quote_spans; previous: the last call's stack
EntryStack(previous) == <<>>

\* what the call that just returned is remembered by
Returned ==
    [ data |-> data, spans |-> spans, predictions |-> predictions, error |-> error ]

\* predict_paragraphs is called again, on an earlier argument or on another document
CallAgain ==
    /\ pc = "done"
    /\ Len(history) + 1 < MaxCalls
    /\ history' = Append(history, Returned)
    /\ \E paragraphs \in { history'[1].data } \cup OtherDocuments :
           data' = paragraphs
    /\ pc' = "find"
    /\ para_idx' = 0
    /\ token_idx' = 0
    /\ quote_i' = 0
    /\ quote_stack' = EntryStack(quote_stack)
    /\ spans' = EntrySpans(spans)
    /\ predictions' = <<>>
    /\ error' = "none"
    /\ UNCHANGED << config, result >>

InitRepeat == \E cfg \in Configs, paragraphs \in RepeatInputs : Entry(cfg, paragraphs)

NextRepeat == Next \/ CallAgain

SpecRepeat == InitRepeat /\ [][NextRepeat]_vars

(***************************************************************************)
(* The handle_nested option: the same document processed by a model built  *)
(* with the other value of the option.                                     *)
(***************************************************************************)
ConfigsNested ==
    [ speech_label : {"DIRECT"},
      handle_multi_paragraph : BOOLEAN,
      handle_nested : BOOLEAN ]

\* predict_paragraphs on the same data, on a model that differs in handle_nested only
CallWithOtherNested ==
    /\ pc = "done"
    /\ history = <<>>
    /\ history' = Append(history, Returned)
    /\ config' = [ config EXCEPT !.handle_nested = ~config.handle_nested ]
    /\ pc' = "find"
    /\ para_idx' = 0
    /\ token_idx' = 0
    /\ quote_i' = 0
    /\ quote_stack' = EntryStack(quote_stack)
    /\ spans' = EntrySpans(spans)
    /\ predictions' = <<>>
    /\ error' = "none"
    /\ UNCHANGED << data, result >>

InitNested ==
    \E cfg \in ConfigsNested, paragraphs \in RepeatInputs : Entry(cfg, paragraphs)

NextNested == Next \/ CallWithOtherNested

SpecNested == InitNested /\ [][NextNested]_vars

(***************************************************************************)
(* TEIParagraph: the construction of a labelled paragraph, as the TEI      *)
(* parser does it from a paragraph's tokens and a list of labels.  The     *)
(* arguments are in data, the record created in result.                    *)
(***************************************************************************)
MaxFieldLen == 3

\* the variables of predict_paragraphs that a construction does not touch
NoCall ==
    /\ config = DefaultConfig
    /\ para_idx = 0
    /\ token_idx = 0
    /\ quote_i = 0
    /\ quote_stack = <<>>
    /\ spans = <<>>
    /\ predictions = <<>>
    /\ history = <<>>

\* every sequence over the set of length at most n
SeqsUpTo(set, n) == UNION { [1..k -> set] : k \in 0..n }

LabelPool == { O, BLabel("DIRECT"), ILabel("DIRECT") }

\* the arguments of TEIParagraph(...)
TEIParagraphArgs ==
    { [ doc_id |-> "doc1", para_id |-> "doc1_para0", text |-> JoinTokens(tokens),
        tokens |-> tokens, bio_labels |-> bio_labels ] :
        tokens \in SeqsUpTo({ <<"a">>, SDQ }, MaxFieldLen),
        bio_labels \in SeqsUpTo(LabelPool, MaxFieldLen) }

InitTEIParagraph ==
    /\ NoCall
    /\ pc = "construct"
    /\ error = "none"
    /\ result = <<>>
    /\ \E args \in TEIParagraphArgs : data = <<args>>

\* mutant: only a paragraph with fewer labels than tokens is rejected
PostInitRaisesOnFewerLabels(tokens, bio_labels) == Len(tokens) > Len(bio_labels)

\* __post_init__: the test that raises ValueError
PostInitRaises(tokens, bio_labels) == Len(tokens) # Len(bio_labels)

\* the dataclass constructor: the fields are set, then __post_init__ runs
TEIParagraphNew ==
    /\ pc = "construct"
    /\ IF PostInitRaises(data[1].tokens, data[1].bio_labels)
       THEN error' = "ValueError" /\ result' = result
       ELSE error' = error /\ result' = << data[1] >>
    /\ pc' = "constructed"
    /\ UNCHANGED << config, data, para_idx, token_idx, quote_i, quote_stack, spans,
                    predictions, history >>

NextTEIParagraph == TEIParagraphNew

SpecTEIParagraph == InitTEIParagraph /\ [][NextTEIParagraph]_vars

(***************************************************************************)
(* QuoteBasedSpeechExtractor.extract_speech_from_text (the module          *)
(* quote_speech_extractor): character spans of quoted passages in a text.  *)
(* The text is data[1].text, the list returned is result.                  *)
(***************************************************************************)
MaxTextLen == 3

\* the grave accent, written by name
BACKTICK == "GRAVE"

\* QuoteBasedSpeechExtractor.OPENING_QUOTES
QuoteBasedSpeechExtractor_OPENING_QUOTES ==
    { STRAIGHT_DOUBLE_QUOTE, LEFT_DOUBLE_QUOTE, LEFT_SINGLE_QUOTE, BACKTICK }

\* QuoteBasedSpeechExtractor.CLOSING_QUOTES, which no method reads
QuoteBasedSpeechExtractor_CLOSING_QUOTES ==
    { STRAIGHT_DOUBLE_QUOTE, RIGHT_DOUBLE_QUOTE, RIGHT_SINGLE_QUOTE, BACKTICK }

\* the locals of extract_speech_from_text before the loop; None is "None"
ExtractStart ==
    [ spans |-> <<>>, in_quote |-> FALSE, quote_start |-> 0, quote_char |-> "None" ]

\* the body of the while loop for the character at index i (0-based)
ExtractStep(text, i, st) ==
    LET char == text[i + 1]
    IN  IF char \in QuoteBasedSpeechExtractor_OPENING_QUOTES
        THEN IF ~st.in_quote
             THEN [ st EXCEPT !.in_quote = TRUE, !.quote_start = i + 1,
                              !.quote_char = char ]
             ELSE IF char = st.quote_char
             THEN [ st EXCEPT !.spans = Append(st.spans, <<st.quote_start, i, "DIRECT">>),
                              !.in_quote = FALSE, !.quote_char = "None" ]
             ELSE st
        ELSE st

RECURSIVE ExtractLoop(_, _, _)
ExtractLoop(text, i, st) ==
    IF i >= Len(text) THEN st
    ELSE ExtractLoop(text, i + 1, ExtractStep(text, i, st))

\* extract_speech_from_text(text): the list of (start_char, end_char, label)
ExtractSpeechFromText(text) == ExtractLoop(text, 0, ExtractStart).spans

TextChars ==
    { "a", STRAIGHT_DOUBLE_QUOTE, LEFT_DOUBLE_QUOTE, RIGHT_DOUBLE_QUOTE,
      LEFT_SINGLE_QUOTE, RIGHT_SINGLE_QUOTE }

InitExtractSpeech ==
    /\ NoCall
    /\ pc = "extract"
    /\ error = "none"
    /\ result = <<>>
    /\ \E text \in SeqsUpTo(TextChars, MaxTextLen) : data = << [ text |-> text ] >>

CallExtractSpeechFromText ==
    /\ pc = "extract"
    /\ result' = ExtractSpeechFromText(data[1].text)
    /\ pc' = "extracted"
    /\ UNCHANGED << config, data, para_idx, token_idx, quote_i, quote_stack, spans,
                    predictions, error, history >>

NextExtractSpeech == CallExtractSpeechFromText

SpecExtractSpeech == InitExtractSpeech /\ [][NextExtractSpeech]_vars

(***************************************************************************)
(* TEIParser._create_bio_labels: the gold labels of a paragraph from the   *)
(* character spans of its speech elements.  The parser calls it with       *)
(* tokens = text.split().  The arguments are in data, the list returned in *)
(* result.                                                                 *)
(***************************************************************************)
MaxGoldTextLen == 4

MaxGoldSpans == 2

\* str.split(): the maximal runs of characters other than the space
RECURSIVE Split(_)
Split(text) ==
    IF text = <<>> THEN <<>>
    ELSE IF Head(text) = " " THEN Split(Tail(text))
    ELSE LET run == CHOOSE n \in 1..Len(text) :
                        /\ \A i \in 1..n : text[i] # " "
                        /\ n = Len(text) \/ text[n + 1] = " "
         IN  <<SubSeq(text, 1, run)>> \o Split(SubSeq(text, run + 1, Len(text)))

\* text.find(sub, start): the least index from start on where sub occurs, or -1
FindFrom(text, sub, start) ==
    LET hits == { i \in start..(Len(text) - Len(sub)) :
                    SubSeq(text, i + 1, i + Len(sub)) = sub }
    IN  IF hits = {} THEN -1 ELSE CHOOSE i \in hits : \A j \in hits : i <= j

\* token_offsets: the (token_start, token_end) of the tokens from index k on
RECURSIVE TokenOffsets(_, _, _, _)
TokenOffsets(tokens, text, k, current_offset) ==
    IF k > Len(tokens) THEN <<>>
    ELSE LET found == FindFrom(text, tokens[k], current_offset)
             token_start == IF found = -1 THEN current_offset ELSE found
             token_end == token_start + Len(tokens[k])
         IN  << <<token_start, token_end>> >>
             \o TokenOffsets(tokens, text, k + 1, token_end + 1)

\* the test of the inner loop: the token overlaps the span
TokenOverlapsSpan(offset, span) == ~(offset[2] <= span[1] \/ offset[1] >= span[2])

\* the inner loop for one gold span: every token index is visited once
ApplyGoldSpan(bio_labels, token_offsets, span) ==
    [ k \in 1..Len(bio_labels) |->
        IF TokenOverlapsSpan(token_offsets[k], span)
        THEN IF bio_labels[k] = O THEN BLabel(span[3])
             ELSE IF bio_labels[k][1] = "B" THEN ILabel(span[3])
             ELSE bio_labels[k]
        ELSE bio_labels[k] ]

RECURSIVE ApplyGoldSpans(_, _, _)
ApplyGoldSpans(bio_labels, token_offsets, gold_spans) ==
    IF gold_spans = <<>> THEN bio_labels
    ELSE ApplyGoldSpans(ApplyGoldSpan(bio_labels, token_offsets, Head(gold_spans)),
                        token_offsets, Tail(gold_spans))

\* _create_bio_labels(tokens, gold_spans, text)
CreateBioLabels(tokens, gold_spans, text) ==
    ApplyGoldSpans([ k \in 1..Len(tokens) |-> O ],
                   TokenOffsets(tokens, text, 1, 0), gold_spans)

\* the (start_char, end_char, label) spans inside a text of the length
GoldSpansIn(length) ==
    { <<start_char, end_char, "DIRECT">> :
        start_char \in 0..length, end_char \in 0..length } 

GoldArgs ==
    UNION { { [ text |-> text, tokens |-> Split(text), gold_spans |-> gold_spans ] :
                gold_spans \in
                    SeqsUpTo({ span \in GoldSpansIn(Len(text)) : span[1] < span[2] },
                             MaxGoldSpans) } :
            text \in SeqsUpTo({ "a", " " }, MaxGoldTextLen) }

InitGoldLabels ==
    /\ NoCall
    /\ pc = "gold"
    /\ error = "none"
    /\ result = <<>>
    /\ \E args \in GoldArgs : data = <<args>>

CallCreateBioLabels ==
    /\ pc = "gold"
    /\ result' = CreateBioLabels(data[1].tokens, data[1].gold_spans, data[1].text)
    /\ pc' = "labelled"
    /\ UNCHANGED << config, data, para_idx, token_idx, quote_i, quote_stack, spans,
                    predictions, error, history >>

NextGoldLabels == CallCreateBioLabels

SpecGoldLabels == InitGoldLabels /\ [][NextGoldLabels]_vars

(***************************************************************************)
(* Shorthands for the properties.                                          *)
(***************************************************************************)
Done == pc = "done"

Labels(p) == predictions[p].predicted_bio_labels

IsSpeech(label) == label # O

RECURSIVE MaxParagraphLen(_)
MaxParagraphLen(paragraphs) ==
    IF paragraphs = <<>> THEN 0
    ELSE LET rest == MaxParagraphLen(Tail(paragraphs))
             here == Len(Head(paragraphs).tokens)
         IN  IF here >= rest THEN here ELSE rest

\* the step-by-step run and the functions above agree
StepsAgreeWithFunctions ==
    /\ pc \in {"project", "done"} =>
           spans = FindQuoteSpans(data, config.handle_multi_paragraph)
    /\ (Done /\ error = "none") =>
           \A p \in 1..Len(data) : Labels(p) = PredictedLabels(data, config)[p]

\* the (paragraph, token) positions of the document, 0-based
Positions ==
    { pos \in (0..(Len(data) - 1)) \X (0..MaxParagraphLen(data)) :
        pos[2] < Len(data[pos[1] + 1].tokens) }

TokenAt(pos) == data[pos[1] + 1].tokens[pos[2] + 1]

LabelAt(pos) == Labels(pos[1] + 1)[pos[2] + 1]

\* document order of positions
Before(a, b) == a[1] < b[1] \/ (a[1] = b[1] /\ a[2] < b[2])

QuoteCharAhead ==
    IF IsQuoteToken(token) THEN token[1] ELSE ExtractQuotes(token)[quote_i + 1]

\* the next step hands a character to _process_quote_token
ProcessesQuoteChar ==
    /\ AtToken
    /\ \/ IsQuoteToken(token)
       \/ /\ HasEdgeQuote(token)
          /\ ~SkippedAsApostrophe(QuoteCharAhead, para.text, token_idx, para.tokens)

C2_ClosingWins ==
    [][ ( /\ ProcessesQuoteChar
          /\ QuoteCharAhead \in CLOSING_QUOTES
          /\ quote_stack # <<>> )
        => /\ quote_stack' = Front(quote_stack)
           /\ Len(spans') = Len(spans) + 1
           /\ Front(spans') = spans
           /\ Last(spans').start_para = Last(quote_stack).open_para
           /\ Last(spans').start_token = Last(quote_stack).open_token
           /\ Last(spans').quote_char = Last(quote_stack).open_char
           /\ Last(spans').end_para = para_idx
           /\ Last(spans').end_token = token_idx ]_vars

\* a straight single quote has popped a left curly double quote
C2_Witness ==
    \E i \in 1..Len(spans) :
        /\ spans[i].end_token >= 0
        /\ spans[i].quote_char = LEFT_DOUBLE_QUOTE
        /\ data[spans[i].end_para + 1].tokens[spans[i].end_token + 1] = SSQ

OpenPos(span) == <<span.start_para, span.start_token>>

ClosePos(span) == <<span.end_para, span.end_token>>

HasQuoteChar(tok) == \E i \in 1..Len(tok) : tok[i] \in QUOTE_CHARS

HasClosingChar(tok) == \E i \in 1..Len(tok) : tok[i] \in CLOSING_QUOTES

(***************************************************************************)
(* C3.  Multi-paragraph continuation: for a quote opened by a quote token  *)
(* in paragraph A and closed by a quote token in a later paragraph B, with *)
(* no quote character in between, every non-delimiter token between the    *)
(* opening and the closing (the rest of A, the paragraphs between, the     *)
(* start of B) has a B- or I- label.                                       *)
(***************************************************************************)
C3_ContinuationLabelled ==
    (Done /\ error = "none") =>
        \A i \in 1..Len(spans) :
            LET span == spans[i]
                inside == { pos \in Positions :
                              Before(OpenPos(span), pos) /\ Before(pos, ClosePos(span)) }
            IN  ( /\ span.end_token >= 0
                  /\ span.start_para < span.end_para
                  /\ IsQuoteToken(TokenAt(OpenPos(span)))
                  /\ IsQuoteToken(TokenAt(ClosePos(span)))
                  /\ \A pos \in inside : ~HasQuoteChar(TokenAt(pos)) )
                => \A pos \in inside : IsSpeech(LabelAt(pos))

(***************************************************************************)
(* C4.  Unclosed quote with handle_multi_paragraph = true: for a quote     *)
(* left open at the end of the document, with no closing character after   *)
(* its opening, every non-delimiter token after the opening, through the   *)
(* last paragraph, has a B- or I- label.                                   *)
(***************************************************************************)
C4_UnclosedLabelled ==
    (Done /\ error = "none" /\ config.handle_multi_paragraph) =>
        \A i \in 1..Len(quote_stack) :
            LET open == <<quote_stack[i].open_para, quote_stack[i].open_token>>
                after == { pos \in Positions : Before(open, pos) }
            IN  (\A pos \in after : ~HasClosingChar(TokenAt(pos)))
                => \A pos \in after :
                       ~IsQuoteToken(TokenAt(pos)) => IsSpeech(LabelAt(pos))

(***************************************************************************)
(* C5.  Nested quote: for the one paragraph                                *)
(* She said " He said ' Hi ' " .  the matcher yields two overlapping       *)
(* spans, the outer with nesting_level 0 and the inner with nesting_level  *)
(* 1; He, said and Hi are labelled B-/I- and the quote tokens stay O.      *)
(***************************************************************************)
C5_NestedExample ==
    (Done /\ data = Document("doc1", NestedStraightExample)) =>
        /\ error = "none"
        /\ Len(spans) = 2
        /\ \E i, j \in 1..Len(spans) :
               /\ spans[i].nesting_level = 0
               /\ spans[j].nesting_level = 1
               /\ Before(OpenPos(spans[i]), OpenPos(spans[j]))
               /\ Before(ClosePos(spans[j]), ClosePos(spans[i]))
        /\ \A k \in {4, 5, 7} : IsSpeech(Labels(1)[k])
        /\ \A k \in {3, 6, 8, 9} : Labels(1)[k] = O

(***************************************************************************)
(* C6.  Simple quote: for a single paragraph whose only quote characters   *)
(* are one pair of standalone straight double quote tokens around n >= 1   *)
(* other tokens, the first enclosed token is labelled B-<TYPE>, the other  *)
(* enclosed tokens I-<TYPE>, and the two quote tokens and every token      *)
(* outside the pair O.                                                     *)
(***************************************************************************)
\* tokens[i] and tokens[j] are the pair, and no other token has a quote character
SimpleQuoteShape(tokens, i, j) ==
    /\ i + 1 < j
    /\ tokens[i] = SDQ
    /\ tokens[j] = SDQ
    /\ \A k \in (1..Len(tokens)) \ {i, j} : ~HasQuoteChar(tokens[k])

C6_SimpleQuote ==
    (Done /\ Len(data) = 1) =>
        \A i, j \in 1..Len(data[1].tokens) :
            SimpleQuoteShape(data[1].tokens, i, j) =>
                /\ error = "none"
                /\ Labels(1) =
                       [ k \in 1..Len(data[1].tokens) |->
                           IF k = i + 1 THEN BLabel(config.speech_label)
                           ELSE IF i + 1 < k /\ k < j THEN ILabel(config.speech_label)
                           ELSE O ]

\* the docstring's example, with its documented labels
C6_Witness ==
    /\ Done
    /\ data = Document("doc1", SimpleQuoteExample)
    /\ Labels(1) = << O, O, O, BLabel("DIRECT"), ILabel("DIRECT"), O, O >>

(***************************************************************************)
(* C7.  BIO well-formedness: in the output, a token labelled I-<TYPE> is   *)
(* immediately preceded by a token labelled B-<TYPE> or I-<TYPE>: the      *)
(* token before it in its paragraph or, for the first token of a           *)
(* paragraph, the last token of the paragraph before.                      *)
(***************************************************************************)
C7_BioWellFormed ==
    (Done /\ error = "none") =>
        \A p \in 1..Len(data) : \A k \in 1..Len(Labels(p)) :
            Labels(p)[k] = ILabel(config.speech_label) =>
                IF k > 1 THEN IsSpeech(Labels(p)[k - 1])
                ELSE /\ p > 1
                     /\ Labels(p - 1) # <<>>
                     /\ IsSpeech(Last(Labels(p - 1)))

(***************************************************************************)
(* C8.  The quote stack is scoped to one document: no span opens in a      *)
(* paragraph of one doc_id and closes, or is extended to end, in a         *)
(* paragraph of another doc_id, also when the paragraphs of several        *)
(* documents are passed to predict_paragraphs in one call.                 *)
(***************************************************************************)
C8_StackScopedToDocument ==
    \A i \in 1..Len(spans) :
        data[spans[i].start_para + 1].doc_id = data[spans[i].end_para + 1].doc_id

(***************************************************************************)
(* C9.  Determinism and statelessness: a call of predict_paragraphs on the *)
(* argument of an earlier call, with the same configuration, returns the   *)
(* spans and the predictions the earlier call returned, whatever was       *)
(* processed in between; every call starts from an empty stack and an      *)
(* empty span list.                                                        *)
(***************************************************************************)
\* the state at the entry of _find_quote_spans
AtEntry == pc = "find" /\ para_idx = 0 /\ token_idx = 0 /\ quote_i = 0

C9_Deterministic ==
    /\ AtEntry => quote_stack = <<>> /\ spans = <<>>
    /\ Done =>
           \A i \in 1..Len(history) :
               history[i].data = data =>
                   /\ history[i].spans = spans
                   /\ history[i].predictions = predictions
                   /\ history[i].error = error

\* the third call repeats the first after another document left a quote open
C9_Witness ==
    /\ Done
    /\ Len(history) = 2
    /\ history[1].data = data
    /\ history[2].data \in OtherDocuments
    /\ history[2].data # data
    /\ spans # <<>>
    /\ quote_stack # <<>>
    /\ \E pos \in Positions : IsSpeech(LabelAt(pos))

(***************************************************************************)
(* C10.  With handle_multi_paragraph = false the entries left on the stack *)
(* at the end of the document are discarded: no span is emitted for them,  *)
(* no error is raised, and the tokens after such an opening are labelled   *)
(* as in the document without it (all O when the document has no other    *)
(* quote character).                                                       *)
(***************************************************************************)
\* the number of quote characters in the tokens of the paragraphs
RECURSIVE QuoteCharCount(_)
QuoteCharCount(paragraphs) ==
    IF paragraphs = <<>> THEN 0
    ELSE LET tokens == Head(paragraphs).tokens
             RECURSIVE InTokens(_)
             InTokens(k) ==
                 IF k = 0 THEN 0
                 ELSE Len(ExtractQuotes(tokens[k])) + InTokens(k - 1)
         IN  InTokens(Len(tokens)) + QuoteCharCount(Tail(paragraphs))

\* the document with the token at pos replaced by the word a
WithoutQuoteAt(paragraphs, pos) ==
    [ p \in 1..Len(paragraphs) |->
        IF p = pos[1] + 1
        THEN Paragraph(paragraphs[p].doc_id, paragraphs[p].para_id,
                       [ paragraphs[p].tokens EXCEPT ![pos[2] + 1] = <<"a">> ])
        ELSE paragraphs[p] ]

C10_UnclosedDiscarded ==
    (Done /\ ~config.handle_multi_paragraph) =>
        /\ error = "none"
        /\ \A i \in 1..Len(spans) : spans[i].end_token >= 0
        /\ \A k \in 1..Len(quote_stack) :
               LET open == <<quote_stack[k].open_para, quote_stack[k].open_token>>
               IN  /\ \A i \in 1..Len(spans) : OpenPos(spans[i]) # open
                   /\ IsQuoteToken(TokenAt(open)) =>
                          LET labels == PredictedLabels(WithoutQuoteAt(data, open), config)
                          IN  \A pos \in Positions :
                                  Before(open, pos) =>
                                      LabelAt(pos) = labels[pos[1] + 1][pos[2] + 1]
        /\ QuoteCharCount(data) = Len(quote_stack) =>
               \A pos \in Positions : LabelAt(pos) = O

\* an unclosed opening followed by a word, next to a closed and labelled quote
C10_Witness ==
    /\ Done
    /\ ~config.handle_multi_paragraph
    /\ quote_stack # <<>>
    /\ spans # <<>>
    /\ \E pos \in Positions :
           /\ Before(<<Last(quote_stack).open_para, Last(quote_stack).open_token>>, pos)
           /\ ~IsQuoteToken(TokenAt(pos))
    /\ \E pos \in Positions : IsSpeech(LabelAt(pos))

(***************************************************************************)
(* C11.  With handle_multi_paragraph = true, the end of the document turns *)
(* each of the k entries left on the stack into exactly one span: opened   *)
(* at the entry's paragraph and token, ending in the last paragraph of the *)
(* document with end token -1, nesting_level 0 and is_nested false,        *)
(* whatever the entry's depth; the k spans follow the closed spans, in     *)
(* stack order, and the step emits nothing else.                           *)
(***************************************************************************)
\* the step that leaves the paragraph loop
LeavesParagraphLoop == pc = "find" /\ para_idx = Len(data)

C11_UnclosedFinalized ==
    [][ (LeavesParagraphLoop /\ config.handle_multi_paragraph)
        => /\ Len(spans') = Len(spans) + Len(quote_stack)
           /\ SubSeq(spans', 1, Len(spans)) = spans
           /\ \A i \in 1..Len(spans) : spans[i].end_token >= 0
           /\ \A k \in 1..Len(quote_stack) :
                  LET span == spans'[Len(spans) + k]
                  IN  /\ span.start_para = quote_stack[k].open_para
                      /\ span.start_token = quote_stack[k].open_token
                      /\ span.quote_char = quote_stack[k].open_char
                      /\ span.end_para = Len(data) - 1
                      /\ span.end_token = -1
                      /\ span.nesting_level = 0
                      /\ span.is_nested = FALSE ]_vars

\* two entries of the first paragraph finalized after a closed span, in a later paragraph
C11_Witness ==
    /\ pc = "project"
    /\ config.handle_multi_paragraph
    /\ Len(data) = 2
    /\ Len(quote_stack) = 2
    /\ quote_stack[2].open_para = 0
    /\ Len(spans) = 3
    /\ spans[1].end_token >= 0
    /\ spans[2].end_token = -1 /\ spans[2].end_para = 1
    /\ spans[3].end_token = -1 /\ spans[3].end_para = 1

(***************************************************************************)
(* C12.  In every output paragraph, every token that is exactly one quote  *)
(* character (a member of the opening or of the closing set) has the label *)
(* O, whatever spans cover it and in whatever order they are applied.      *)
(***************************************************************************)
\* the span's range, as projected in its start paragraph, includes the position
Marks(span, pos) ==
    /\ pos[1] = span.start_para
    /\ span.start_token <= pos[2]
    /\ pos[2] <= EndTok(span, span.start_para, data[span.start_para + 1].tokens)

C12_DelimitersStayO ==
    (Done /\ error = "none") =>
        \A pos \in Positions : IsQuoteToken(TokenAt(pos)) => LabelAt(pos) = O

\* a quote token strictly inside two spans, between two labelled tokens
C12_Witness ==
    /\ Done
    /\ error = "none"
    /\ \E pos \in Positions :
           /\ IsQuoteToken(TokenAt(pos))
           /\ LabelAt(pos) = O
           /\ \E i, j \in 1..Len(spans) :
                  /\ i # j
                  /\ Marks(spans[i], pos) /\ spans[i].start_token < pos[2]
                  /\ Marks(spans[j], pos)
           /\ \E before, after \in Positions :
                  /\ before[1] = pos[1] /\ after[1] = pos[1]
                  /\ before[2] < pos[2] /\ pos[2] < after[2]
                  /\ IsSpeech(LabelAt(before)) /\ IsSpeech(LabelAt(after))

(***************************************************************************)
(* C13.  Apostrophe non-leakage: a token whose quote characters are all    *)
(* strictly inside it (its first and its last character are no quote       *)
(* characters, as in don't) causes no push, no pop and no span, with the   *)
(* stack empty or not; where such a token is outside every emitted span    *)
(* its label is O.                                                         *)
(***************************************************************************)
InteriorQuotesOnly(tok) ==
    /\ Len(tok) >= 3
    /\ tok[1] \notin ALL_QUOTES
    /\ tok[Len(tok)] \notin ALL_QUOTES
    /\ \E i \in 2..(Len(tok) - 1) : tok[i] \in QUOTE_CHARS

\* the position is in the inclusive range of the span, in document order
Covers(span, pos) ==
    /\ ~Before(pos, OpenPos(span))
    /\ \/ pos[1] < span.end_para
       \/ pos[1] = span.end_para /\ (span.end_token < 0 \/ pos[2] <= span.end_token)

C13_InteriorQuotesInert ==
    /\ [][ (AtToken /\ InteriorQuotesOnly(token))
            => quote_stack' = quote_stack /\ spans' = spans ]_vars
    /\ [] ( (Done /\ error = "none") =>
               \A pos \in Positions :
                   ( /\ InteriorQuotesOnly(TokenAt(pos))
                     /\ \A i \in 1..Len(spans) : ~Covers(spans[i], pos) )
                   => LabelAt(pos) = O )

\* such tokens met with the stack empty and with a quote open, labelled only inside it
C13_Witness ==
    /\ Done
    /\ error = "none"
    /\ spans # <<>>
    /\ \E inside, outside \in Positions :
           /\ InteriorQuotesOnly(TokenAt(inside))
           /\ InteriorQuotesOnly(TokenAt(outside))
           /\ Before(inside, outside)
           /\ \E i \in 1..Len(spans) : Covers(spans[i], inside)
           /\ \A i \in 1..Len(spans) : ~Covers(spans[i], outside)
           /\ IsSpeech(LabelAt(inside))
           /\ LabelAt(outside) = O

(***************************************************************************)
(* C14.  The fast path preserves behaviour (every paragraph's text being   *)
(* its tokens joined): a paragraph whose text has no quote character is    *)
(* passed with the stack and the span list unchanged, in one step when the *)
(* pattern finds nothing, and the spans and the labels of the call are     *)
(* those of _find_quote_spans run without the fast path.                   *)
(***************************************************************************)
NoQuoteCharIn(text) == \A i \in 1..Len(text) : text[i] \notin ALL_QUOTES

NoPatternCharIn(text) == \A i \in 1..Len(text) : text[i] \notin QUOTE_CHARS

C14_FastPathPreserves ==
    /\ [][ (InParagraph /\ NoQuoteCharIn(para.text))
            => quote_stack' = quote_stack /\ spans' = spans ]_vars
    /\ [][ (InParagraph /\ NoPatternCharIn(para.text))
            => para_idx' = para_idx + 1 /\ token_idx' = token_idx ]_vars
    /\ [] ( pc \in {"project", "done"} =>
               spans = FindQuoteSpansEveryToken(data, config.handle_multi_paragraph) )
    /\ [] ( (Done /\ error = "none") =>
               \A p \in 1..Len(data) :
                   Labels(p) =
                       SpansToBioLabels(data,
                           FindQuoteSpansEveryToken(data, config.handle_multi_paragraph),
                           config.speech_label)[p] )

\* a paragraph with tokens and no quote character, passed while a quote was open
C14_Witness ==
    /\ Done
    /\ error = "none"
    /\ \E i \in 1..Len(spans), p \in 1..Len(data) :
           /\ spans[i].start_para < p - 1
           /\ p - 1 < spans[i].end_para
           /\ spans[i].end_token >= 0
           /\ data[p].tokens # <<>>
           /\ NoPatternCharIn(data[p].text)

(***************************************************************************)
(* C15.  predict_paragraphs returns one record per input paragraph, in the *)
(* order of the input, each with that paragraph's own identifiers, tokens  *)
(* and text; so does generate_quote_based_labels, whose records carry the  *)
(* predicted labels; and the input paragraphs are not modified.            *)
(***************************************************************************)
C15_OneRecordPerParagraph ==
    /\ [][ data' = data ]_vars
    /\ [] ( (Done /\ error = "none") =>
               /\ Len(predictions) = Len(data)
               /\ \A p \in 1..Len(data) :
                      /\ predictions[p].tokens = data[p].tokens
                      /\ predictions[p].text = data[p].text
                      /\ predictions[p].doc_id = data[p].doc_id
                      /\ predictions[p].para_id = data[p].para_id )
    /\ [] ( (pc = "labeled" /\ error = "none") =>
               /\ Len(result) = Len(data)
               /\ \A p \in 1..Len(data) :
                      /\ \A key \in DOMAIN data[p] : result[p][key] = data[p][key]
                      /\ result[p].bio_labels = Labels(p) )

\* labelled dictionaries returned for two paragraphs with different tokens
C15_Witness ==
    /\ pc = "labeled"
    /\ error = "none"
    /\ Len(result) = 2
    /\ result[1].tokens # result[2].tokens
    /\ result[1].para_id # result[2].para_id
    /\ \E k \in 1..Len(result[1].bio_labels) : IsSpeech(result[1].bio_labels[k])
    /\ "bio_labels" \notin DOMAIN data[1]

(***************************************************************************)
(* C16.  Constructing a TEIParagraph whose bio_labels and tokens differ in *)
(* length raises ValueError and creates no record; the construction        *)
(* succeeds whenever the two lengths are equal, zero included.             *)
(***************************************************************************)
C16_LengthsValidated ==
    pc = "constructed" =>
        IF Len(data[1].tokens) = Len(data[1].bio_labels)
        THEN error = "none" /\ result = << data[1] >>
        ELSE error = "ValueError" /\ result = <<>>

\* one label too many is rejected
C16_Witness ==
    /\ pc = "constructed"
    /\ Len(data[1].bio_labels) = Len(data[1].tokens) + 1
    /\ error = "ValueError"
    /\ result = <<>>

(***************************************************************************)
(* C17.  extract_speech_from_text returns a DIRECT span for the text       *)
(* between a left curly quote and the matching right curly quote, double   *)
(* or single, as it does for the text between two straight double quotes:  *)
(* for a text whose only quote characters are such a pair, the span from   *)
(* the character after the opening to the closing character.               *)
(***************************************************************************)
\* the text has the characters open at i and close at j (1-based) and no other quote
OnlyPair(text, open, close, i, j) ==
    /\ i < j
    /\ text[i] = open
    /\ text[j] = close
    /\ \A k \in (1..Len(text)) \ {i, j} : text[k] = "a"

C17_CurlyQuotesExtracted ==
    pc = "extracted" =>
        LET text == data[1].text
        IN  \A i, j \in 1..Len(text) :
                ( \/ OnlyPair(text, STRAIGHT_DOUBLE_QUOTE, STRAIGHT_DOUBLE_QUOTE, i, j)
                  \/ OnlyPair(text, LEFT_DOUBLE_QUOTE, RIGHT_DOUBLE_QUOTE, i, j)
                  \/ OnlyPair(text, LEFT_SINGLE_QUOTE, RIGHT_SINGLE_QUOTE, i, j) )
                => result = << <<i, j - 1, "DIRECT">> >>

(***************************************************************************)
(* C18.  Every span emitted by a pop has the popped entry's paragraph and  *)
(* token as its opening, the current paragraph and token as its closing,   *)
(* the popped character as quote_char, nesting_level equal to the size of  *)
(* the stack right after the pop, and is_nested true exactly when that     *)
(* size is greater than 0; a step of the token loop emits a span only by a *)
(* pop.                                                                    *)
(***************************************************************************)
C18_PoppedSpanFields ==
    [][ (InParagraph /\ (spans' # spans \/ Len(quote_stack') < Len(quote_stack)))
        => /\ quote_stack # <<>>
           /\ quote_stack' = Front(quote_stack)
           /\ spans' =
                  Append(spans,
                         [ start_para |-> Last(quote_stack).open_para,
                           end_para |-> para_idx,
                           start_token |-> Last(quote_stack).open_token,
                           end_token |-> token_idx,
                           quote_char |-> Last(quote_stack).open_char,
                           is_nested |-> Len(quote_stack') > 0,
                           nesting_level |-> Len(quote_stack') ]) ]_vars

\* a span popped at depth two and then one at depth one, over two paragraphs
C18_Witness ==
    /\ pc = "find"
    /\ Len(spans) = 2
    /\ spans[1].nesting_level = 1 /\ spans[1].is_nested
    /\ spans[2].nesting_level = 0 /\ ~spans[2].is_nested
    /\ spans[2].start_para < spans[2].end_para
    /\ quote_stack = <<>>

(***************************************************************************)
(* C19.  Overlapping spans are properly nested: of any two spans emitted   *)
(* for a document, closed or finalized, taken as inclusive ranges of       *)
(* (paragraph, token) positions, either the ranges share no token or one   *)
(* contains the other; also when a token carries several quote characters. *)
(***************************************************************************)
\* the positions of the span's inclusive range
Range(span) == { pos \in Positions : Covers(span, pos) }

C19_ProperlyNested ==
    pc \in {"project", "done"} =>
        \A i, j \in 1..Len(spans) :
            \/ Range(spans[i]) \cap Range(spans[j]) = {}
            \/ Range(spans[i]) \subseteq Range(spans[j])
            \/ Range(spans[j]) \subseteq Range(spans[i])

(***************************************************************************)
(* C20.  Overlap policy: when two or more spans assign a label to a token, *)
(* they are applied in the order of the span list (closed spans in closing *)
(* order, then the finalized spans in stack order) and the token's label   *)
(* is the one assigned by the last of them; a token that no span assigns a *)
(* label to is O.                                                          *)
(***************************************************************************)
\* the span writes a label at the position: in its range there, and not a quote token
Writes(span, pos) == Marks(span, pos) /\ ~IsQuoteToken(TokenAt(pos))

\* the label the span writes at the position: B- at its first non-quote token
Written(span, pos) ==
    IF \E k \in span.start_token..(pos[2] - 1) :
           ~IsQuoteToken(TokenAt(<<pos[1], k>>))
    THEN ILabel(config.speech_label)
    ELSE BLabel(config.speech_label)

Writers(pos) == { i \in 1..Len(spans) : Writes(spans[i], pos) }

LastOf(set) == CHOOSE i \in set : \A j \in set : j <= i

C20_LastSpanWins ==
    (Done /\ error = "none") =>
        \A pos \in Positions :
            IF Writers(pos) = {} THEN LabelAt(pos) = O
            ELSE LabelAt(pos) = Written(spans[LastOf(Writers(pos))], pos)

\* a token written B- by an earlier span and I- by a later one
C20_Witness ==
    /\ Done
    /\ error = "none"
    /\ \E pos \in Positions :
           \E i, j \in Writers(pos) :
               /\ i < j
               /\ j = LastOf(Writers(pos))
               /\ Written(spans[i], pos) = BLabel(config.speech_label)
               /\ Written(spans[j], pos) = ILabel(config.speech_label)
               /\ LabelAt(pos) = ILabel(config.speech_label)

(***************************************************************************)
(* C21.  Trailing apostrophe rule: a single quote character that is the    *)
(* last character of a token longer than 2 characters, and to which the    *)
(* leading-quote rule does not apply, is an apostrophe: it is neither      *)
(* pushed nor popped; also in a token that starts and ends with a single   *)
(* quote character.                                                        *)
(***************************************************************************)
\* the next step of the token loop is about a quote character of a Case 2 token
AtEmbeddedQuote == AtToken /\ ~IsQuoteToken(token) /\ HasEdgeQuote(token)

\* the 1-based indices in the token of its quote characters, in order
QuoteIndices(tok) ==
    LET idx == { i \in 1..Len(tok) : tok[i] \in ALL_QUOTES }
        RECURSIVE Sorted(_)
        Sorted(set) ==
            IF set = {} THEN <<>>
            ELSE LET least == CHOOSE i \in set : \A j \in set : i <= j
                 IN  <<least>> \o Sorted(set \ {least})
    IN  Sorted(idx)

\* the index in the token of the quote character the next step is about
QuoteIndexAhead == QuoteIndices(token)[quote_i + 1]

\* the leading-quote rule for the character at index i of the token
LeadingRuleApplies(tok, i) ==
    /\ i = 1
    /\ Len(tok) > 2
    /\ IsAlpha(RemoveChar(Tail(tok), "-"))

C21_TrailingApostrophe ==
    [][ ( /\ AtEmbeddedQuote
          /\ QuoteCharAhead \in SINGLE_QUOTE_FAMILY
          /\ QuoteIndexAhead = Len(token)
          /\ Len(token) > 2
          /\ ~LeadingRuleApplies(token, QuoteIndexAhead) )
        => quote_stack' = quote_stack /\ spans' = spans ]_vars

(***************************************************************************)
(* C22.  Internal apostrophe rule: in a token the matcher scans (longer    *)
(* than one character, a quote character first or last), every single      *)
(* quote character at a position that is neither the first nor the last is *)
(* an apostrophe: it is neither pushed nor popped; also when the token     *)
(* begins with a single quote character.                                   *)
(***************************************************************************)
C22_InternalApostrophe ==
    [][ ( /\ AtEmbeddedQuote
          /\ QuoteCharAhead \in SINGLE_QUOTE_FAMILY
          /\ 1 < QuoteIndexAhead
          /\ QuoteIndexAhead < Len(token) )
        => quote_stack' = quote_stack /\ spans' = spans ]_vars

(***************************************************************************)
(* C23.  The context fallback looks at the character's own position: a     *)
(* single quote character that no token rule decides (here the first       *)
(* character of a token longer than 2 whose remainder is not alphabetic)   *)
(* is skipped as an apostrophe exactly when the characters right before    *)
(* and right after that occurrence in the paragraph text are letters, and  *)
(* is processed as a quote otherwise, whatever other occurrences of the    *)
(* character the paragraph has.                                            *)
(***************************************************************************)
\* the 0-based index in the text of the first character of the token at token_idx
RECURSIVE TokenOffset(_, _)
TokenOffset(tokens, k) ==
    IF k = 0 THEN 0 ELSE TokenOffset(tokens, k - 1) + Len(tokens[k]) + 1

\* the check on the characters around the index char_idx (0-based) of the text
LettersAround(text, char_idx) ==
    /\ char_idx > 0
    /\ char_idx < Len(text) - 1
    /\ text[char_idx] \in Letters
    /\ text[char_idx + 2] \in Letters

C23_ContextAtOwnPosition ==
    [][ ( /\ AtEmbeddedQuote
          /\ QuoteCharAhead \in SINGLE_QUOTE_FAMILY
          /\ QuoteIndexAhead = 1
          /\ Len(token) > 2
          /\ ~LeadingRuleApplies(token, 1) )
        => LET own == TokenOffset(para.tokens, token_idx) + QuoteIndexAhead - 1
               r == ProcessQuoteToken(QuoteCharAhead, token_idx, para_idx,
                                      quote_stack, spans)
           IN  IF LettersAround(para.text, own)
               THEN quote_stack' = quote_stack /\ spans' = spans
               ELSE quote_stack' = r.quote_stack /\ spans' = r.spans ]_vars

(***************************************************************************)
(* C24.  Leading quote rule: a single quote character that is the first    *)
(* character of a token longer than 2 whose remainder is alphabetic        *)
(* (hyphens allowed) is never an apostrophe; it is processed by the        *)
(* priority rule: it pops when it is in the closing set and the stack is   *)
(* not empty, otherwise it pushes when it is in the opening set.           *)
(***************************************************************************)
C24_LeadingQuote ==
    [][ ( /\ AtEmbeddedQuote
          /\ QuoteCharAhead \in SINGLE_QUOTE_FAMILY
          /\ QuoteIndexAhead = 1
          /\ LeadingRuleApplies(token, 1) )
        => IF QuoteCharAhead \in CLOSING_QUOTES /\ quote_stack # <<>>
           THEN /\ quote_stack' = Front(quote_stack)
                /\ Len(spans') = Len(spans) + 1
                /\ Front(spans') = spans
                /\ OpenPos(Last(spans')) =
                       <<Last(quote_stack).open_para, Last(quote_stack).open_token>>
                /\ ClosePos(Last(spans')) = <<para_idx, token_idx>>
           ELSE IF QuoteCharAhead \in OPENING_QUOTES
           THEN /\ quote_stack' =
                       Append(quote_stack, [ open_para |-> para_idx,
                                             open_token |-> token_idx,
                                             open_char |-> QuoteCharAhead ])
                /\ spans' = spans
           ELSE quote_stack' = quote_stack /\ spans' = spans ]_vars

\* the quote before a word has opened after a contraction, and a later quote closed it
C24_Witness ==
    /\ pc = "find"
    /\ \E i \in 1..Len(spans) :
           LET open == TokenAt(OpenPos(spans[i]))
           IN  /\ spans[i].quote_char = STRAIGHT_SINGLE_QUOTE
               /\ LeadingRuleApplies(open, 1)
               /\ spans[i].start_token > 0
               /\ TokenAt(<<spans[i].start_para, spans[i].start_token - 1>>) = dont

(***************************************************************************)
(* C25.  A token that is exactly one single quote character is never an    *)
(* apostrophe: it is processed by the priority rule (a pop when it is in   *)
(* the closing set and the stack is not empty, otherwise a push when it is *)
(* in the opening set), whatever letters surround it in the text.          *)
(***************************************************************************)
C25_StandaloneSingleQuote ==
    [][ ( /\ AtToken
          /\ Len(token) = 1
          /\ token[1] \in SINGLE_QUOTE_FAMILY )
        => IF token[1] \in CLOSING_QUOTES /\ quote_stack # <<>>
           THEN /\ quote_stack' = Front(quote_stack)
                /\ Len(spans') = Len(spans) + 1
                /\ Front(spans') = spans
                /\ OpenPos(Last(spans')) =
                       <<Last(quote_stack).open_para, Last(quote_stack).open_token>>
                /\ ClosePos(Last(spans')) = <<para_idx, token_idx>>
           ELSE IF token[1] \in OPENING_QUOTES
           THEN /\ quote_stack' =
                       Append(quote_stack, [ open_para |-> para_idx,
                                             open_token |-> token_idx,
                                             open_char |-> token[1] ])
                /\ spans' = spans
           ELSE quote_stack' = quote_stack /\ spans' = spans ]_vars

\* the single quote token between the letters n and t of the text has opened a quote
C25_Witness ==
    /\ Done
    /\ data = SplitContraction
    /\ config.handle_multi_paragraph
    /\ Len(spans) = 1
    /\ spans[1].start_token = 1
    /\ spans[1].quote_char = STRAIGHT_SINGLE_QUOTE
    /\ Labels(1) = << O, O, BLabel("DIRECT") >>

Overlapped(text, span) ==
    LET offsets == TokenOffsets(Split(text), text, 1, 0)
    IN  { k \in 1..Len(offsets) :
            \E c \in span[1]..(span[2] - 1) : offsets[k][1] <= c /\ c < offsets[k][2] }

C27_GoldSpanBIO ==
    (pc = "labelled" /\ Len(data[1].gold_spans) = 1) =>
        LET span == data[1].gold_spans[1]
            over == Overlapped(data[1].text, span)
        IN  Cardinality(over) >= 2 =>
                /\ Len(result) = Len(data[1].tokens)
                /\ \A k \in 1..Len(result) :
                       result[k] =
                           IF k \notin over THEN O
                           ELSE IF \A j \in over : k <= j THEN BLabel(span[3])
                           ELSE ILabel(span[3])

(***************************************************************************)
(* C28.  In a document whose quote characters are all straight quotes the  *)
(* stack never holds more than one entry, and every span emitted has       *)
(* nesting_level 0 and is_nested false, however the quotes are arranged.   *)
(***************************************************************************)
StraightQuotesOnly(paragraphs) ==
    \A p \in 1..Len(paragraphs) : \A k \in 1..Len(paragraphs[p].tokens) :
        \A i \in 1..Len(paragraphs[p].tokens[k]) :
            paragraphs[p].tokens[k][i] \in QUOTE_CHARS =>
                paragraphs[p].tokens[k][i] \in
                    { STRAIGHT_DOUBLE_QUOTE, STRAIGHT_SINGLE_QUOTE }

C28_StraightQuotesFlat ==
    (pc \in {"find", "project", "done"} /\ StraightQuotesOnly(data)) =>
        /\ Len(quote_stack) <= 1
        /\ \A i \in 1..Len(spans) :
               spans[i].nesting_level = 0 /\ ~spans[i].is_nested

\* the single quote inside the double quote of the nested example has closed it
C28_Witness ==
    /\ Done
    /\ data = Document("doc1", NestedStraightExample)
    /\ Len(spans) = 2
    /\ spans[1].quote_char = STRAIGHT_DOUBLE_QUOTE
    /\ TokenAt(ClosePos(spans[1])) = SSQ

(***************************************************************************)
(* C29.  Every opened quote is accounted for once.  A step of the pass     *)
(* pushes one entry (at the current position) and emits nothing, or pops   *)
(* one entry and emits one span, or changes neither: so the pushes made    *)
(* are always the closed spans plus the entries on the stack.  The stack   *)
(* entries are ordered by position from bottom to top, every closed span   *)
(* opens at or before its closing, and with handle_multi_paragraph = true  *)
(* the final span list has one span per push: the closed spans and one     *)
(* span per entry left.                                                    *)
(***************************************************************************)
StackPos(entry) == <<entry.open_para, entry.open_token>>

C29_QuotesAccounted ==
    /\ [][ InParagraph =>
              \/ /\ Len(quote_stack') = Len(quote_stack) + 1
                 /\ Front(quote_stack') = quote_stack
                 /\ StackPos(Last(quote_stack')) = <<para_idx, token_idx>>
                 /\ spans' = spans
              \/ /\ quote_stack # <<>>
                 /\ quote_stack' = Front(quote_stack)
                 /\ Len(spans') = Len(spans) + 1
                 /\ Front(spans') = spans
              \/ /\ quote_stack' = quote_stack
                 /\ spans' = spans ]_vars
    /\ [] ( pc \in {"find", "project", "done"} =>
               /\ \A i, j \in 1..Len(quote_stack) :
                      i < j => ~Before(StackPos(quote_stack[j]), StackPos(quote_stack[i]))
               /\ \A i \in 1..Len(spans) :
                      spans[i].end_token >= 0 =>
                          ~Before(ClosePos(spans[i]), OpenPos(spans[i])) )
    /\ [][ (LeavesParagraphLoop /\ config.handle_multi_paragraph)
            => Len(spans') = Len(spans) + Len(quote_stack) ]_vars
    /\ [] ( (pc \in {"project", "done"} /\ config.handle_multi_paragraph) =>
               Cardinality({ i \in 1..Len(spans) : spans[i].end_token < 0 })
                   = Len(quote_stack) )

\* three pushes: two of them closed, across paragraphs, and one left on the stack
C29_Witness ==
    /\ Done
    /\ config.handle_multi_paragraph
    /\ Len(quote_stack) = 1
    /\ Len(spans) = 3
    /\ spans[1].end_token >= 0
    /\ spans[2].end_token >= 0
    /\ spans[3].end_token = -1
    /\ \E i \in 1..2 : spans[i].start_para < spans[i].end_para

(***************************************************************************)
(* C30.  The right curly double quote, the right curly single quote and    *)
(* the right guillemet are closing characters only.  When one of them is   *)
(* processed with the stack empty, nothing changes: no entry is pushed, no *)
(* span is emitted, no error is raised.  No stack entry and no span ever   *)
(* opens with one of them.                                                 *)
(***************************************************************************)
ClosingOnlyMarks == { RIGHT_DOUBLE_QUOTE, RIGHT_SINGLE_QUOTE, RIGHT_GUILLEMET }

C30_StrayClosingMark ==
    /\ [] (ClosingOnlyMarks = CLOSING_QUOTES \ OPENING_QUOTES)
    /\ [][ ( /\ ProcessesQuoteChar
            /\ QuoteCharAhead \in ClosingOnlyMarks
            /\ quote_stack = <<>> )
          => /\ quote_stack' = <<>>
             /\ spans' = spans
             /\ error' = error ]_vars
    /\ [] ( pc \in {"find", "project", "done"} =>
               /\ \A i \in 1..Len(quote_stack) :
                      quote_stack[i].open_char \notin ClosingOnlyMarks
               /\ \A i \in 1..Len(spans) :
                      spans[i].quote_char \notin ClosingOnlyMarks )

\* a paragraph that starts with a stray right curly quote, fully labelled O
C30_Witness ==
    /\ Done
    /\ error = "none"
    /\ Len(data) = 1
    /\ Len(data[1].tokens) >= 2
    /\ data[1].tokens[1] = RDQ
    /\ spans = <<>>
    /\ quote_stack = <<>>
    /\ \A k \in 1..Len(data[1].tokens) : Labels(1)[k] = O

====
